---- MODULE Spec2Model ----
(***************************************************************************)
(* Model of gns3converter/topology.py: the LegacyTopology accumulator      *)
(* (add_artwork_item, add_conf_item, add_physical_item, device_typename)   *)
(* and the JSONTopology assembler (property setters, get_topology).        *)
(*                                                                         *)
(* Python values are encoded as records [t |-> tag, v |-> payload]:        *)
(*   None  [t |-> "none", v |-> <<>>]                                      *)
(*   str   [t |-> "str",  v |-> sequence of one-character strings]         *)
(*   int   [t |-> "int",  v |-> sequence of digit characters]              *)
(*   list  [t |-> "list", v |-> sequence of elements]                      *)
(*   dict  [t |-> "dict", v |-> function from key to value]                *)
(* A Python str is a sequence of characters so that split, replace,        *)
(* indexing and slicing are computed character by character.  A dict that  *)
(* is only read and written by key is a function; its insertion order is   *)
(* kept separately where a claim speaks of it (devOrder).                  *)
(***************************************************************************)
EXTENDS Integers, Sequences, FiniteSets, TLC

VARIABLES
    old_top,      \* LegacyTopology.old_top: instance -> item -> field -> value
    topology,     \* LegacyTopology.topology: [devices, conf, artwork]
    devOrder,     \* key order of topology['devices'] (dict insertion order)
    hv_id,        \* LegacyTopology.hv_id
    nid,          \* LegacyTopology.nid
    last,         \* the most recent accumulator call and how it ended
    repeat,       \* the most recent call repeated the one before it
    confLenAtAdd, \* device name -> len(conf) when its record was written
    calls,        \* number of accumulator calls made
    nodes, links, notes, shapes, images, servers, name,  \* JSONTopology._*
    serversSet,   \* the servers setter has been used
    result,       \* what the most recent JSONTopology call returned
    arg, out, pc  \* argument, results and position of a pure-function run

accVars == <<old_top, topology, devOrder, hv_id, nid, last, repeat,
             confLenAtAdd, calls>>
asmVars == <<nodes, links, notes, shapes, images, servers, name,
             serversSet, result>>
funVars == <<arg, out, pc>>
vars == <<accVars, asmVars, funVars>>

(***************************************************************************)
(* Bounds                                                                  *)
(***************************************************************************)
MaxCalls == 3     \* accumulator calls in one run
MaxLen == 4       \* characters in a drawn string value
MaxPieces == 4    \* pieces a drawn item key is built from
MaxListLen == 1   \* elements in a drawn list value

(***************************************************************************)
(* Python values                                                           *)
(***************************************************************************)
None == [t |-> "none", v |-> <<>>]
PyStr(s) == [t |-> "str", v |-> s]
PyInt(s) == [t |-> "int", v |-> s]
PyList(s) == [t |-> "list", v |-> s]
PyDict(f) == [t |-> "dict", v |-> f]
IsNone(x) == x.t = "none"

Quote == "\""
Backslash == "\\"
Newline == "\n"
Space == " "

\* d[k] = v on a dict
Put(d, k, v) == [x \in DOMAIN d \cup {k} |-> IF x = k THEN v ELSE d[x]]

\* all sequences over S of length 0..n
RECURSIVE SeqsUpTo(_, _)
SeqsUpTo(S, n) ==
    IF n = 0 THEN {<<>>}
    ELSE LET shorter == SeqsUpTo(S, n - 1)
         IN shorter \cup {Append(s, c) : s \in shorter, c \in S}

\* the concatenation of a sequence of strings
RECURSIVE Concat(_)
Concat(ss) == IF ss = <<>> THEN <<>> ELSE Head(ss) \o Concat(Tail(ss))

(***************************************************************************)
(* str methods                                                             *)
(***************************************************************************)
\* str.replace(old, new) for a non-empty old: every non-overlapping
\* occurrence, scanning from the left
RECURSIVE Replace(_, _, _)
Replace(s, old, new) ==
    IF Len(s) < Len(old) THEN s
    ELSE IF SubSeq(s, 1, Len(old)) = old
         THEN new \o Replace(SubSeq(s, Len(old) + 1, Len(s)), old, new)
         ELSE <<Head(s)>> \o Replace(Tail(s), old, new)

\* str.split(c) for a one-character separator
RECURSIVE Split(_, _)
Split(s, c) ==
    IF \A i \in 1..Len(s) : s[i] # c THEN <<s>>
    ELSE LET k == CHOOSE i \in 1..Len(s) :
                     s[i] = c /\ \A j \in 1..(i - 1) : s[j] # c
         IN <<SubSeq(s, 1, k - 1)>> \o Split(SubSeq(s, k + 1, Len(s)), c)

(***************************************************************************)
(* LegacyTopology.device_typename                                          *)
(***************************************************************************)
ROUTER == <<"R", "O", "U", "T", "E", "R">>
QEMU == <<"Q", "E", "M", "U">>
VBOX == <<"V", "B", "O", "X">>
FRSW == <<"F", "R", "S", "W">>
ETHSW == <<"E", "T", "H", "S", "W">>
Hub == <<"H", "u", "b">>
ATMSW == <<"A", "T", "M", "S", "W">>
ATMBR == <<"A", "T", "M", "B", "R">>
Cloud == <<"C", "l", "o", "u", "d">>

TypeEntry(from, desc, type) == [from |-> from, desc |-> desc, type |-> type]

dev_type ==
    [k \in {ROUTER, QEMU, VBOX, FRSW, ETHSW, Hub, ATMSW, ATMBR, Cloud} |->
        CASE k = ROUTER -> TypeEntry(ROUTER, "Router", "Router")
          [] k = QEMU -> TypeEntry(QEMU, "QEMU", "QEMU")
          [] k = VBOX -> TypeEntry(VBOX, "VBOX", "VBOX")
          [] k = FRSW -> TypeEntry(FRSW, "Frame Relay switch", "FrameRelaySwitch")
          [] k = ETHSW -> TypeEntry(ETHSW, "Ethernet switch", "EthernetSwitch")
          [] k = Hub -> TypeEntry(Hub, "Ethernet hub", "EthernetHub")
          [] k = ATMSW -> TypeEntry(ATMSW, "ATM switch", "ATMSwitch")
          [] k = ATMBR -> TypeEntry(ATMBR, "ATMBR", "ATMBR")
          [] k = Cloud -> TypeEntry(Cloud, "Cloud", "Cloud")]

\* the outcome of device_typename(item): err = "ok" with the returned
\* (name, dev_type[item_type]), or the exception raised
device_typename(item) ==
    LET item_type == Split(item, Space)[1]
    IN IF item_type \notin DOMAIN dev_type
       THEN [err |-> "KeyError"]
       ELSE [err |-> "ok",
             name |-> Replace(item, dev_type[item_type].from \o <<Space>>, <<>>),
             dev_type |-> dev_type[item_type]]

(***************************************************************************)
(* gns3converter.models.MODEL_TRANSFORM: legacy model name -> model name   *)
(***************************************************************************)
MODEL_TRANSFORM ==
    [k \in {<<"7", "2", "0", "0">>, <<"3", "6", "4", "0">>} |->
        IF k = <<"7", "2", "0", "0">> THEN <<"c", "7", "2", "0", "0">>
        ELSE <<"c", "3", "6", "0", "0">>]

(***************************************************************************)
(* LegacyTopology                                                          *)
(***************************************************************************)
GNS3_DATA == "GNS3-DATA"
SHAPE == <<"S", "H", "A", "P", "E">>
NOTE == <<"N", "O", "T", "E">>
PIXMAP == <<"P", "I", "X", "M", "A", "P">>

\* the state the claims call "the accumulator"
accState == <<topology, hv_id, nid>>

\* the fields of a legacy record whose value is not None
NonNull(legacy) == {f \in DOMAIN legacy : ~IsNone(legacy[f])}

\* for s_item in sorted(legacy): if legacy[s_item] is not None:
\*     rec[s_item] = legacy[s_item]
\* (the sorted order fixes only the order in which the keys are inserted)
CopyNonNull(legacy, rec) ==
    [f \in DOMAIN rec \cup NonNull(legacy) |->
        IF f \in NonNull(legacy) THEN legacy[f] ELSE rec[f]]

\* s_detail = s_detail.replace('\\n', '\n') for a str of a NOTE
NoteFixMut(item_type, s_detail) ==
    IF s_detail.t = "str"
    THEN PyStr(Replace(s_detail.v, <<Backslash, "n">>, <<Newline>>))
    ELSE s_detail
NoteFix(item_type, s_detail) ==
    IF item_type = NOTE /\ s_detail.t = "str"
    THEN PyStr(Replace(s_detail.v, <<Backslash, "n">>, <<Newline>>))
    ELSE s_detail

\* s_detail = s_detail[1:-1] for a str longer than one character that
\* starts and ends with a double quote
StripQuotesMut(s_detail) ==
    IF s_detail.t = "str" /\ Len(s_detail.v) > 1 /\ s_detail.v[1] = Quote
    THEN PyStr(SubSeq(s_detail.v, 2, Len(s_detail.v) - 1))
    ELSE s_detail
StripQuotes(s_detail) ==
    IF s_detail.t = "str" /\ Len(s_detail.v) > 1
       /\ s_detail.v[1] = Quote /\ s_detail.v[Len(s_detail.v)] = Quote
    THEN PyStr(SubSeq(s_detail.v, 2, Len(s_detail.v) - 1))
    ELSE s_detail

\* the outcome of add_artwork_item(instance, item) in the current state
ArtworkOutcome(instance, item) ==
    LET legacy == old_top[instance][item]
        parts == Split(item, Space)
        same(e) == [err |-> e, topology |-> topology]
    IN IF "interface" \in DOMAIN legacy THEN same("ok")
       ELSE IF Len(parts) # 2 THEN same("ValueError")
       ELSE IF parts[1] \notin DOMAIN topology.artwork THEN same("KeyError")
       ELSE LET item_type == parts[1]
                item_id == parts[2]
                rec == [f \in NonNull(legacy) |->
                           StripQuotes(NoteFix(item_type, legacy[f]))]
            IN [err |-> "ok",
                topology |->
                    [topology EXCEPT
                        !.artwork[item_type] = Put(@, item_id, rec)]]

\* self.hv_id = len(self.topology['conf']) - 1
ConfCursorMut(conf) == Len(conf)
ConfCursor(conf) == Len(conf) - 1

\* self.nid += 1
NextNidMut(n) == n
NextNid(n) == n + 1

\* the outcome of add_physical_item(instance, item) in the current state
PhysicalOutcome(instance, item) ==
    LET tn == device_typename(item)
        legacy == old_top[instance][item]
        conf == topology.conf
    IN IF tn.err # "ok"
       THEN [err |-> tn.err, topology |-> topology,
             devOrder |-> devOrder, nid |-> nid]
       ELSE
       LET dname == tn.name
           rec0 == [k \in {"hv_id", "node_id", "type"} |->
                       CASE k = "hv_id" -> hv_id
                         [] k = "node_id" -> nid
                         [] k = "type" -> tn.dev_type.type]
           rec1 == CopyNonNull(legacy, rec0)
           order1 == IF dname \in DOMAIN topology.devices
                     THEN devOrder ELSE Append(devOrder, dname)
           with(rec, e, n) ==
               [err |-> e,
                topology |-> [topology EXCEPT !.devices = Put(@, dname, rec)],
                devOrder |-> order1,
                nid |-> n]
       IN IF instance # GNS3_DATA /\ rec1["type"] = "Router"
          THEN IF "model" \notin DOMAIN rec1
               THEN IF hv_id >= Len(conf)
                    THEN with(rec1, "IndexError", nid)
                    ELSE IF "model" \notin DOMAIN conf[hv_id + 1]
                    THEN with(rec1, "KeyError", nid)
                    ELSE with(Put(rec1, "model", conf[hv_id + 1]["model"]),
                              "ok", NextNid(nid))
               ELSE IF rec1["model"].t # "str"
                       \/ rec1["model"].v \notin DOMAIN MODEL_TRANSFORM
                    THEN with(rec1, "KeyError", nid)
                    ELSE with(Put(rec1, "model",
                                  PyStr(MODEL_TRANSFORM[rec1["model"].v])),
                              "ok", NextNid(nid))
          ELSE with(rec1, "ok", NextNid(nid))

Call(op, instance, item, err) ==
    [op |-> op, instance |-> instance, item |-> item, err |-> err]

\* bookkeeping shared by the three calls
Called(op, instance, item, err) ==
    /\ last' = Call(op, instance, item, err)
    /\ repeat' = (last = Call(op, instance, item, "ok") /\ err = "ok")
    /\ calls' = calls + 1
    /\ UNCHANGED <<old_top, asmVars, funVars>>

AddArtworkItem(instance, item) ==
    /\ calls < MaxCalls
    /\ LET o == ArtworkOutcome(instance, item)
       IN /\ topology' = o.topology
          /\ Called("artwork", instance, item, o.err)
    /\ UNCHANGED <<devOrder, hv_id, nid, confLenAtAdd>>

AddConfigItem(instance, item) ==
    /\ calls < MaxCalls
    /\ LET tmp_conf == CopyNonNull(old_top[instance][item], <<>>)
           conf == Append(topology.conf, tmp_conf)
       IN /\ topology' = [topology EXCEPT !.conf = conf]
          /\ hv_id' = ConfCursor(conf)
    /\ Called("conf", instance, item, "ok")
    /\ UNCHANGED <<devOrder, nid, confLenAtAdd>>

AddPhysicalItem(instance, item) ==
    /\ calls < MaxCalls
    /\ LET o == PhysicalOutcome(instance, item)
       IN /\ topology' = o.topology
          /\ devOrder' = o.devOrder
          /\ nid' = o.nid
          /\ confLenAtAdd' =
                IF device_typename(item).err # "ok" THEN confLenAtAdd
                ELSE Put(confLenAtAdd, device_typename(item).name,
                         Len(topology.conf))
          /\ Called("physical", instance, item, o.err)
    /\ UNCHANGED hv_id

(***************************************************************************)
(* The legacy topology of a run: the reserved section and one hypervisor   *)
(* section with two config blocks and four devices.                        *)
(***************************************************************************)
Item(tag, id) == tag \o <<Space>> \o id

Hypervisor == "127.0.0.1:7200"
c3600 == <<"c", "3", "6", "0", "0">>

FixedTop ==
    [i \in {GNS3_DATA, Hypervisor} |->
        IF i = GNS3_DATA
        THEN [k \in {Item(NOTE, <<"1">>), Item(SHAPE, <<"2">>),
                     Item(ROUTER, <<"R", "1">>)} |->
                CASE k = Item(NOTE, <<"1">>) ->
                        [text |-> PyStr(<<Quote, "h", Backslash, "n", "w", Quote>>),
                         x |-> PyStr(<<"1", "0">>),
                         color |-> None]
                  [] k = Item(SHAPE, <<"2">>) ->
                        [interface |-> PyStr(<<"f", "0">>),
                         x |-> PyStr(<<"1", "0">>)]
                  [] k = Item(ROUTER, <<"R", "1">>) ->
                        [model |-> None, x |-> PyStr(<<"5">>)]]
        ELSE [k \in {<<"3", "6", "4", "0">>, <<"7", "2", "0", "0">>,
                     Item(ROUTER, <<"R", "1">>), Item(ROUTER, <<"R", "2">>),
                     Item(ROUTER, <<"R", "3">>), Item(QEMU, <<"R", "1">>)} |->
                CASE k = <<"3", "6", "4", "0">> ->
                        [image |-> PyStr(<<"i">>), model |-> PyStr(c3600)]
                  [] k = <<"7", "2", "0", "0">> ->
                        [image |-> PyStr(<<"j">>), model |-> None]
                  [] k = Item(ROUTER, <<"R", "1">>) ->
                        [model |-> None, x |-> PyStr(<<"1", "0">>)]
                  [] k = Item(ROUTER, <<"R", "2">>) ->
                        [model |-> PyStr(<<"7", "2", "0", "0">>)]
                  [] k = Item(ROUTER, <<"R", "3">>) ->
                        [model |-> PyStr(<<"b", "o", "g", "u", "s">>)]
                  [] k = Item(QEMU, <<"R", "1">>) ->
                        [x |-> PyInt(<<"7">>)]]]

NoCall == Call("none", "", <<>>, "ok")
NoResult == [err |-> "none"]

\* LegacyTopology.__init__(sections, old_top)
InitAcc(top) ==
    /\ old_top = top
    /\ topology = [devices |-> <<>>,
                   conf |-> <<>>,
                   artwork |-> [k \in {SHAPE, NOTE, PIXMAP} |-> <<>>]]
    /\ devOrder = <<>>
    /\ hv_id = 0
    /\ nid = 1
    /\ last = NoCall
    /\ repeat = FALSE
    /\ confLenAtAdd = <<>>
    /\ calls = 0

\* JSONTopology.__init__()
DefaultServers ==
    PyList(<<[host |-> "127.0.0.1", id |-> 1, local |-> TRUE, port |-> 8000]>>)

InitAsm ==
    /\ nodes = None
    /\ links = None
    /\ notes = None
    /\ shapes = None
    /\ images = None
    /\ servers = DefaultServers
    /\ name = None
    /\ serversSet = FALSE
    /\ result = NoResult

InitFun ==
    /\ arg = <<>>
    /\ out = <<>>
    /\ pc = "idle"

Init == InitAcc(FixedTop) /\ InitAsm /\ InitFun

\* the caller's loop: for instance in old_top, for item in old_top[instance]
ArtworkCall ==
    \E instance \in DOMAIN old_top :
        \E item \in DOMAIN old_top[instance] : AddArtworkItem(instance, item)

ConfigCall ==
    \E instance \in DOMAIN old_top :
        \E item \in DOMAIN old_top[instance] : AddConfigItem(instance, item)

PhysicalCall ==
    \E instance \in DOMAIN old_top :
        \E item \in DOMAIN old_top[instance] : AddPhysicalItem(instance, item)

Next == ArtworkCall \/ ConfigCall \/ PhysicalCall

Spec == Init /\ [][Next]_vars

(***************************************************************************)
(* Claims about the accumulator (specification Spec)                       *)
(***************************************************************************)
devices == topology.devices

\* C1 (as stated): every device record's hv_id equals len(conf) - 1 as it
\* was when the device was added, also for a device added before any
\* config block.
C1_HvIdIsLastConfIndex ==
    \A d \in DOMAIN devices : devices[d]["hv_id"] = confLenAtAdd[d] - 1

\* C1 (amended): every device record's hv_id equals len(conf) - 1 as it was
\* when the device was added if conf was not empty then, and 0 if it was.
C1_HvIdIsLastConfIndexOrZero ==
    \A d \in DOMAIN devices :
        devices[d]["hv_id"] =
            IF confLenAtAdd[d] = 0 THEN 0 ELSE confLenAtAdd[d] - 1

\* C1 witness: one device added before any config block and another added
\* after a config block.
C1_Witness ==
    \E d1, d2 \in DOMAIN devices :
        /\ confLenAtAdd[d1] = 0
        /\ confLenAtAdd[d2] > 0
        /\ devices[d2]["hv_id"] = confLenAtAdd[d2] - 1

\* C2: the node_id values of the device records, in device-insertion
\* order, are 1, 2, 3, ... with no gaps or repeats.
C2_NodeIdsSequential ==
    \A k \in 1..Len(devOrder) : devices[devOrder[k]]["node_id"] = k

\* C3: after add_physical_item for an item of resolved type Router with an
\* instance other than GNS3-DATA, the device record has a model field: the
\* model of conf[hv_id] if the legacy record has no non-null model, and
\* otherwise MODEL_TRANSFORM of the legacy model.
C3_RouterModelResolved ==
    LET tn == device_typename(last.item)
        legacy == old_top[last.instance][last.item]
        conf == topology.conf
    IN (/\ last.op = "physical"
        /\ tn.err = "ok"
        /\ tn.dev_type.type = "Router"
        /\ last.instance # GNS3_DATA)
       => /\ "model" \in DOMAIN devices[tn.name]
          /\ IF "model" \notin NonNull(legacy)
             THEN /\ hv_id < Len(conf)
                  /\ "model" \in DOMAIN conf[hv_id + 1]
                  /\ devices[tn.name]["model"] = conf[hv_id + 1]["model"]
             ELSE /\ legacy["model"].v \in DOMAIN MODEL_TRANSFORM
                  /\ devices[tn.name]["model"] =
                         PyStr(MODEL_TRANSFORM[legacy["model"].v])

\* C5: a call that fails leaves devices, conf, artwork, hv_id and nid as
\* they were before the call.
C5_FailedCallLeavesNoOutput ==
    [][(calls' = calls + 1 /\ last'.err # "ok") => accState' = accState]_vars

\* C8 (as stated): a successful call of any of the three operations,
\* repeated with the same arguments, leaves the accumulator different from
\* the state after the first call.
C8_NoOperationIdempotent ==
    [][repeat' => accState' # accState]_vars

\* C8 (amended): a successful add_conf_item or add_physical_item call,
\* repeated with the same arguments, leaves the accumulator different from
\* the state after the first call; a repeated add_artwork_item call leaves
\* it the same.
C8_OnlyArtworkIdempotent ==
    [][repeat' => IF last'.op = "artwork"
                  THEN accState' = accState
                  ELSE accState' # accState]_vars

\* C8 witness: an add_artwork_item call that wrote a record was repeated.
C8_Witness ==
    /\ repeat
    /\ last.op = "artwork"
    /\ \E c \in DOMAIN topology.artwork : topology.artwork[c] # <<>>

(***************************************************************************)
(* JSONTopology                                                            *)
(***************************************************************************)
ListVals == {None} \cup {PyList(l) : l \in SeqsUpTo({1}, MaxListLen)}
ShapeVals ==
    {None}
    \cup {PyDict(f) : f \in [{"ellipse", "rectangle"} -> ListVals]}
    \cup {PyDict(f) : f \in [{"ellipse"} -> ListVals]}
ServerVals ==
    {None, DefaultServers, PyList(<<>>),
     PyList(<<[host |-> "10.0.0.2", id |-> 2, local |-> FALSE, port |-> 8000]>>)}
NameVals == {None, PyStr(<<"l", "a", "b">>)}

\* a property setter returns nothing
Set(others) ==
    /\ result' = NoResult
    /\ UNCHANGED others
    /\ UNCHANGED <<accVars, funVars>>

SetNodes ==
    /\ \E v \in ListVals : nodes' = v
    /\ Set(<<links, notes, shapes, images, servers, name, serversSet>>)

SetLinks ==
    /\ \E v \in ListVals : links' = v
    /\ Set(<<nodes, notes, shapes, images, servers, name, serversSet>>)

SetNotes ==
    /\ \E v \in ListVals : notes' = v
    /\ Set(<<nodes, links, shapes, images, servers, name, serversSet>>)

SetShapes ==
    /\ \E v \in ShapeVals : shapes' = v
    /\ Set(<<nodes, links, notes, images, servers, name, serversSet>>)

SetImages ==
    /\ \E v \in ListVals : images' = v
    /\ Set(<<nodes, links, notes, shapes, servers, name, serversSet>>)

SetServers ==
    /\ \E v \in ServerVals : servers' = v
    /\ serversSet' = TRUE
    /\ Set(<<nodes, links, notes, shapes, images, name>>)

SetName ==
    /\ \E v \in NameVals : name' = v
    /\ Set(<<nodes, links, notes, shapes, images, servers, serversSet>>)

\* if src is not None: topology['topology'][key] = src
IncludeMut(topo, key, src) ==
    IF ~IsNone(src) /\ Len(src.v) > 0 THEN Put(topo, key, src) ELSE topo
Include(topo, key, src) ==
    IF ~IsNone(src) THEN Put(topo, key, src) ELSE topo

\* the outcome of self._shapes[key]
ShapesGetMut(key) ==
    IF IsNone(shapes) \/ key \notin DOMAIN shapes.v
    THEN [err |-> "ok", value |-> None]
    ELSE [err |-> "ok", value |-> shapes.v[key]]
ShapesGet(key) ==
    IF IsNone(shapes) THEN [err |-> "TypeError"]
    ELSE IF key \notin DOMAIN shapes.v THEN [err |-> "KeyError"]
    ELSE [err |-> "ok", value |-> shapes.v[key]]

\* the outcome of get_topology() in the current state
get_topology ==
    LET t1 == Include(<<>>, "links", links)
        t2 == Include(t1, "nodes", nodes)
        t3 == Include(t2, "servers", servers)
        t4 == Include(t3, "notes", notes)
        ellipse == ShapesGet("ellipse")
        rectangle == ShapesGet("rectangle")
    IN IF ellipse.err # "ok" THEN [err |-> ellipse.err]
       ELSE IF rectangle.err # "ok" THEN [err |-> rectangle.err]
       ELSE LET t5 == Include(t4, "ellipses", ellipse.value)
                t6 == Include(t5, "rectangles", rectangle.value)
                t7 == Include(t6, "images", images)
            IN [err |-> "ok",
                value |-> [name |-> name,
                           resources_type |-> "local",
                           topology |-> t7,
                           type |-> "topology",
                           version |-> "1.0"]]

GetTopology ==
    /\ result' = get_topology
    /\ UNCHANGED <<nodes, links, notes, shapes, images, servers, name,
                   serversSet>>
    /\ UNCHANGED <<accVars, funVars>>

NextAsm ==
    \/ SetNodes
    \/ SetLinks
    \/ SetNotes
    \/ SetShapes
    \/ SetImages
    \/ SetServers
    \/ SetName
    \/ GetTopology

SpecAsm == Init /\ [][NextAsm]_vars

(***************************************************************************)
(* Claims about the assembler (specification SpecAsm)                      *)
(***************************************************************************)
HasBothShapes ==
    ~IsNone(shapes) /\ {"ellipse", "rectangle"} \subseteq DOMAIN shapes.v

\* key is in topo exactly when src is not None, and then with src's value
Carried(topo, key, src) ==
    /\ key \in DOMAIN topo <=> ~IsNone(src)
    /\ key \in DOMAIN topo => topo[key] = src

\* C4: with shapes a container that has both subkeys, get_topology returns
\* a structure in which each of links, nodes, servers, notes, images,
\* ellipses, rectangles is present exactly when its source is not None, with
\* the source's value; name, resources_type, type and version are always
\* present; and servers is the default local-server entry when never set.
C4_TopologyCarriesNonNullFields ==
    (result.err # "none" /\ HasBothShapes)
    => /\ result.err = "ok"
       /\ DOMAIN result.value =
              {"name", "resources_type", "topology", "type", "version"}
       /\ result.value.name = name
       /\ result.value.resources_type = "local"
       /\ result.value.type = "topology"
       /\ result.value.version = "1.0"
       /\ LET topo == result.value.topology
          IN /\ DOMAIN topo \subseteq {"links", "nodes", "servers", "notes",
                                       "images", "ellipses", "rectangles"}
             /\ Carried(topo, "links", links)
             /\ Carried(topo, "nodes", nodes)
             /\ Carried(topo, "servers", servers)
             /\ Carried(topo, "notes", notes)
             /\ Carried(topo, "images", images)
             /\ Carried(topo, "ellipses", shapes.v["ellipse"])
             /\ Carried(topo, "rectangles", shapes.v["rectangle"])
             /\ ~serversSet => topo["servers"] = DefaultServers

\* C4 witness: get_topology returned with nodes None, links an empty list,
\* an empty ellipse list, a None rectangle entry and servers never set.
C4_Witness ==
    /\ result.err = "ok"
    /\ IsNone(nodes)
    /\ links = PyList(<<>>)
    /\ shapes = PyDict([ellipse |-> PyList(<<>>), rectangle |-> None])
    /\ ~serversSet

\* C6: get_topology fails with a TypeError whenever shapes is None,
\* whatever the other six fields hold, and succeeds whenever shapes is a
\* container with both subkeys.
C6_NullShapesIsFatal ==
    result.err # "none"
    => /\ IsNone(shapes) => result.err = "TypeError"
       /\ HasBothShapes => result.err = "ok"

\* C6 witness: get_topology failed after setters filled other fields and
\* left shapes None.
C6_Witness ==
    /\ result.err = "TypeError"
    /\ ~IsNone(nodes)
    /\ ~IsNone(name)
    /\ serversSet

(***************************************************************************)
(* The quote stripping of add_artwork_item as a function of one string     *)
(* (specification SpecStrip)                                               *)
(***************************************************************************)
StripAlphabet == {Quote, Backslash, "a"}

InitStrip ==
    /\ InitAcc(FixedTop)
    /\ InitAsm
    /\ arg \in {PyStr(s) : s \in SeqsUpTo(StripAlphabet, MaxLen)}
    /\ out = <<>>
    /\ pc = "start"

StripOnce ==
    /\ pc = "start"
    /\ out' = <<StripQuotes(arg)>>
    /\ pc' = "once"
    /\ UNCHANGED <<arg, accVars, asmVars>>

StripTwice ==
    /\ pc = "once"
    /\ out' = Append(out, StripQuotes(out[1]))
    /\ pc' = "twice"
    /\ UNCHANGED <<arg, accVars, asmVars>>

NextStrip == StripOnce \/ StripTwice

SpecStrip == InitStrip /\ [][NextStrip]_vars

\* s is at least four characters long, begins with two double quotes and
\* ends with two double quotes
DoublyQuoted(s) ==
    /\ Len(s) >= 4
    /\ s[1] = Quote /\ s[2] = Quote
    /\ s[Len(s) - 1] = Quote /\ s[Len(s)] = Quote

\* C7 (as stated): stripping twice equals stripping once, for every string.
C7_StripIdempotent ==
    pc = "twice" => out[2] = out[1]

\* C7 (amended): stripping twice equals stripping once exactly for the
\* strings that are not at least four characters long with two double
\* quotes at each end; for those the second stripping removes one more pair.
C7_StripIdempotentUnlessDoublyQuoted ==
    pc = "twice" => (out[2] = out[1] <=> ~DoublyQuoted(arg.v))

\* C7 witness: a string that the first stripping shortened and the second
\* left alone.
C7_Witness ==
    /\ pc = "twice"
    /\ out[1] # arg
    /\ out[2] = out[1]

(***************************************************************************)
(* device_typename as a function of one item key (specification            *)
(* SpecTypename)                                                           *)
(***************************************************************************)
Pieces == {ROUTER, Hub, <<Space>>, <<"A">>, <<"x", "1">>}

InitTypename ==
    /\ InitAcc(FixedTop)
    /\ InitAsm
    /\ arg \in {Concat(ps) : ps \in SeqsUpTo(Pieces, MaxPieces)}
    /\ out = <<>>
    /\ pc = "start"

ResolveDeviceTypeName ==
    /\ pc = "start"
    /\ out' = device_typename(arg)
    /\ pc' = "done"
    /\ UNCHANGED <<arg, accVars, asmVars>>

NextTypename == ResolveDeviceTypeName

SpecTypename == InitTypename /\ [][NextTypename]_vars

HasPrefix(s, p) == Len(s) >= Len(p) /\ SubSeq(s, 1, Len(p)) = p

\* C10: for TYPE (the text before the first space) in the table,
\* device_typename returns the item with only its leading "TYPE " removed
\* and the table entry of TYPE; it fails when TYPE is not in the table, and
\* fails when "TYPE " is not the leading substring of the item.
C10_OnlyLeadingPrefixRemoved ==
    pc = "done"
    => LET TYPE == Split(arg, Space)[1]
           prefix == TYPE \o <<Space>>
       IN IF TYPE \notin DOMAIN dev_type THEN out.err = "KeyError"
          ELSE IF HasPrefix(arg, prefix)
          THEN /\ out.err = "ok"
               /\ out.name = SubSeq(arg, Len(prefix) + 1, Len(arg))
               /\ out.dev_type = dev_type[TYPE]
          ELSE out.err # "ok"

(***************************************************************************)
(* add_artwork_item over drawn legacy records (specification SpecArt)      *)
(***************************************************************************)
ArtAlphabet == {Quote, Backslash, "n"}
ArtValues ==
    {None, PyInt(<<"7">>)}
    \cup {PyStr(s) : s \in SeqsUpTo(ArtAlphabet, MaxLen)}
ArtRecords ==
    {[text |-> t, x |-> x] : t \in ArtValues, x \in {None, PyInt(<<"5">>)}}
\* NOTE 1, SHAPE 1 and PIXMAP 1 hold the drawn record; NOTE 2 holds it with
\* an interface field added
ArtTops ==
    {[i \in {GNS3_DATA} |->
        [k \in {Item(NOTE, <<"1">>), Item(SHAPE, <<"1">>),
                Item(PIXMAP, <<"1">>), Item(NOTE, <<"2">>)} |->
            IF k = Item(NOTE, <<"2">>)
            THEN [text |-> rec.text, x |-> rec.x,
                  interface |-> PyStr(<<"f", "0">>)]
            ELSE rec]] : rec \in ArtRecords}

InitArt ==
    /\ \E top \in ArtTops : InitAcc(top)
    /\ InitAsm
    /\ InitFun

NextArt == ArtworkCall

SpecArt == InitArt /\ [][NextArt]_vars

\* every backslash followed by n becomes one newline character
RECURSIVE ExpandNewlines(_)
ExpandNewlines(s) ==
    IF Len(s) = 0 THEN <<>>
    ELSE IF Len(s) >= 2 /\ s[1] = Backslash /\ s[2] = "n"
    THEN <<Newline>> \o ExpandNewlines(SubSeq(s, 3, Len(s)))
    ELSE <<s[1]>> \o ExpandNewlines(SubSeq(s, 2, Len(s)))

\* one surrounding pair of double quotes removed
Unquote(s) ==
    IF Len(s) >= 2 /\ s[1] = Quote /\ s[Len(s)] = Quote
    THEN [i \in 1..(Len(s) - 2) |-> s[i + 1]]
    ELSE s

\* the artwork record the claim expects for a legacy record
ExpectedArtwork(category, legacy) ==
    [f \in {g \in DOMAIN legacy : legacy[g] # None} |->
        IF legacy[f].t = "str"
        THEN PyStr(Unquote(IF category = NOTE
                           THEN ExpandNewlines(legacy[f].v)
                           ELSE legacy[f].v))
        ELSE legacy[f]]

\* C9: for an artwork item "CATEGORY identifier" whose legacy record has no
\* interface field, add_artwork_item sets artwork[CATEGORY][identifier] to
\* exactly the non-null fields of the legacy record, each string value
\* newline-expanded only for NOTE and then stripped of one surrounding pair
\* of double quotes, other values unchanged, and changes nothing else; with
\* an interface field the accumulator is left unchanged.
C9_ArtworkRecord ==
    [][(calls' = calls + 1 /\ last'.op = "artwork")
       => LET legacy == old_top[last'.instance][last'.item]
              parts == Split(last'.item, Space)
          IN IF "interface" \in DOMAIN legacy
             THEN accState' = accState
             ELSE /\ last'.err = "ok"
                  /\ topology' =
                        [topology EXCEPT
                            !.artwork[parts[1]] =
                                Put(@, parts[2],
                                    ExpectedArtwork(parts[1], legacy))]
                  /\ hv_id' = hv_id
                  /\ nid' = nid]_vars

\* C9 witness: NOTE 1 with text "\n" in double quotes was added, its text
\* is one newline character, and the last call was the skipped NOTE 2.
C9_Witness ==
    /\ last = Call("artwork", GNS3_DATA, Item(NOTE, <<"2">>), "ok")
    /\ old_top[GNS3_DATA][Item(NOTE, <<"1">>)]["text"] =
           PyStr(<<Quote, Backslash, "n", Quote>>)
    /\ <<"1">> \in DOMAIN topology.artwork[NOTE]
    /\ topology.artwork[NOTE][<<"1">>]["text"] = PyStr(<<Newline>>)

====
